---------------------------- MODULE Spec2Model ----------------------------
(***************************************************************************)
(* A model of analysis.py: main() loads a CSV file into a table and then   *)
(* runs eight report sections over it in sequence, each printing to        *)
(* standard output.                                                        *)
(*                                                                         *)
(* Numbers.  A float is kept as an exact fraction [n, d] (value n/d); a    *)
(* fraction with d = 0 is NaN.  final_price is entered in thousandths of a *)
(* dollar, so that rounding to two decimals loses something.               *)
(***************************************************************************)
EXTENDS Integers, Sequences, FiniteSets

\* The longest table Init enumerates.
MaxRows == 3

---------------------------------------------------------------------------
\* The input file

\* The columns analysis.py reads from the file.
CsvColumns ==
  {"date", "product", "category", "region", "payment_method",
   "customer_id", "quantity", "discount_percent", "final_price"}

\* final_price values, in thousandths of a dollar: $100, $50.004, $50, $30, $0.
Prices == <<100000, 50004, 50000, 30000, 0>>

\* The other fields of a row vary together, as one of these templates.
Templates ==
  << [product |-> "Product A", region |-> "North", category |-> "X",
      payment_method |-> "Card", customer_id |-> "C1", quantity |-> 2,
      discount_percent |-> 0, date |-> [month |-> 1, day |-> 15]],
     [product |-> "Product B", region |-> "South", category |-> "Y",
      payment_method |-> "Cash", customer_id |-> "C2", quantity |-> 1,
      discount_percent |-> 10, date |-> [month |-> 4, day |-> 2]],
     [product |-> "Product B", region |-> "West", category |-> "X",
      payment_method |-> "PayPal", customer_id |-> "C3", quantity |-> 1,
      discount_percent |-> 20, date |-> [month |-> 2, day |-> 28]],
     [product |-> "Product A", region |-> "North", category |-> "Z",
      payment_method |-> "Cash", customer_id |-> "C1", quantity |-> 3,
      discount_percent |-> 20, date |-> [month |-> 4, day |-> 20]] >>

CsvRow(price, t) ==
  [date |-> t.date, product |-> t.product, category |-> t.category,
   region |-> t.region, payment_method |-> t.payment_method,
   customer_id |-> t.customer_id, quantity |-> t.quantity,
   discount_percent |-> t.discount_percent, final_price |-> price]

\* The rows a file is made of, numbered by price, then template.
NumCsvRows == Len(Prices) * Len(Templates)
CsvRowAt(j) ==
  CsvRow(Prices[((j - 1) \div Len(Templates)) + 1], Templates[((j - 1) % Len(Templates)) + 1])

\* Python's order of the string labels that are used as group keys.
LabelOrder ==
  <<"Card", "Cash", "North", "PayPal", "Product A", "Product B", "South", "West",
    "X", "Y", "Z">>

IndexOf(x, seq) == CHOOSE i \in 1..Len(seq) : seq[i] = x

NumericColumns == {"discount_percent", "month", "quarter", "quantity", "final_price"}

\* The position of group key k of column col in ascending key order.
KeyRank(col, k) == IF col \in NumericColumns THEN k ELSE IndexOf(k, LabelOrder)

---------------------------------------------------------------------------
\* Arithmetic

RECURSIVE GCD(_, _)
GCD(a, b) == IF b = 0 THEN a ELSE GCD(b, a % b)

\* The float n/d, in lowest terms; d = 0 is NaN.
Frac(n, d) ==
  IF d = 0 THEN [n |-> 0, d |-> 0]
  ELSE LET g == GCD(n, d) IN [n |-> n \div g, d |-> d \div g]
NaN == Frac(0, 0)
IsNaN(x) == x.d = 0

FracLess(a, b) == a.n * b.d < b.n * a.d

\* n/d (d > 0, n >= 0) rounded to the nearest integer, halves to even.
DivRoundHalfEven(n, d) ==
  LET q == n \div d
      r == n % d
  IN  IF 2 * r < d THEN q
      ELSE IF 2 * r > d THEN q + 1
      ELSE IF q % 2 = 0 THEN q ELSE q + 1

\* The number of hundredths nearest to x, halves to even.
Hundredths(x) == 100 * (x.n \div x.d) + DivRoundHalfEven(100 * (x.n % x.d), x.d)

\* Round2 cutting the digits after the second instead of rounding.
Round2Floor(x) == IF IsNaN(x) THEN NaN ELSE Frac((100 * x.n) \div x.d, 100)

\* round(2) of a float: the nearest hundredth; NaN stays NaN.
Round2(x) == IF IsNaN(x) THEN NaN ELSE Frac(Hundredths(x), 100)

\* f"{x:.2f}": the text printed for a float, as hundredths, or "nan".
Format2f(x) ==
  IF IsNaN(x) THEN [text |-> "nan", h |-> 0]
  ELSE [text |-> "fixed", h |-> Hundredths(x)]

\* str() of an integer or a label.
FormatStr(v) == [text |-> "str", h |-> v]

\* a / b on numpy floats: 0/0 is nan.
Divide(a, b) ==
  IF IsNaN(a) \/ IsNaN(b) \/ b.n = 0 THEN NaN ELSE Frac(a.n * b.d, a.d * b.n)

\* a * k for an integer k.
Times(a, k) == IF IsNaN(a) THEN NaN ELSE Frac(a.n * k, a.d)

---------------------------------------------------------------------------
\* Series operations

RECURSIVE SumSeq(_)
SumSeq(s) == IF s = <<>> THEN 0 ELSE Head(s) + SumSeq(Tail(s))

\* df[col] as a sequence of values.
Column(rows, col) == [i \in 1..Len(rows) |-> rows[i][col]]

\* The unit of a column's numbers: final_price is in thousandths.
Unit(col) == IF col = "final_price" THEN 1000 ELSE 1

\* Series.sum(): 0 for an empty series.
SeriesSum(rows, col) == Frac(SumSeq(Column(rows, col)), Unit(col))

\* Series.mean(): nan for an empty series.
SeriesMean(rows, col) ==
  IF rows = <<>> THEN NaN
  ELSE Frac(SumSeq(Column(rows, col)), Unit(col) * Len(rows))

\* SeriesCount counting the distinct values.
SeriesCountUnique(rows, col) == Frac(Cardinality({rows[i][col] : i \in 1..Len(rows)}), 1)

\* len(df) of a group: the 'count' aggregate.
SeriesCount(rows, col) == Frac(Len(rows), 1)

\* Series.nunique().
NUnique(rows, col) == Cardinality({rows[i][col] : i \in 1..Len(rows)})

RECURSIVE SortAsc(_)
\* The values of a set of integers in ascending order.
SortAsc(S) ==
  IF S = {} THEN <<>>
  ELSE LET m == CHOOSE x \in S : \A y \in S : x <= y
       IN  <<m>> \o SortAsc(S \ {m})

RECURSIVE InsertSorted(_, _)
InsertSorted(x, s) ==
  IF s = <<>> THEN <<x>>
  ELSE IF x <= Head(s) THEN <<x>> \o s
  ELSE <<Head(s)>> \o InsertSorted(x, Tail(s))

RECURSIVE SortValues(_)
\* A sequence of integers sorted ascending.
SortValues(s) == IF s = <<>> THEN <<>> ELSE InsertSorted(Head(s), SortValues(Tail(s)))

\* Series.median(): the middle value, or the mean of the two middle values.
SeriesMedian(rows, col) ==
  LET s == SortValues(Column(rows, col))
      n == Len(s)
  IN  IF n = 0 THEN NaN
      ELSE IF n % 2 = 1 THEN Frac(s[(n + 1) \div 2], Unit(col))
      ELSE Frac(s[n \div 2] + s[n \div 2 + 1], 2 * Unit(col))

---------------------------------------------------------------------------
\* Tables: groupby, agg, round, sort_values, idxmax

\* A table is [columns |-> <<names>>, rows |-> <<[key, vals]>>]; vals[i] is the
\* cell of columns[i].

\* The values of a sequence.
Range(s) == {s[i] : i \in DOMAIN s}

\* df[df[col].isin(keep)]: the rows whose value of the column is in keep.
SelectRows(rows, col, keep) == SelectSeq(rows, LAMBDA r : r[col] \in keep)

RECURSIVE SortKeys(_, _)
\* The keys of a set in ascending order: groupby sorts its group keys.
SortKeys(col, S) ==
  IF S = {} THEN <<>>
  ELSE LET m == CHOOSE x \in S : \A y \in S : KeyRank(col, x) <= KeyRank(col, y)
       IN  <<m>> \o SortKeys(col, S \ {m})

\* df.groupby(by): one group per key that occurs, in ascending key order.
GroupBy(rows, by) ==
  LET keys == SortKeys(by, {rows[i][by] : i \in 1..Len(rows)})
  IN  [i \in 1..Len(keys) |->
         [key |-> keys[i], rows |-> SelectRows(rows, by, {keys[i]})]]

\* One aggregate of one field over the rows of a group.
Aggregate(stat, rows, field) ==
  CASE stat = "sum"   -> SeriesSum(rows, field)
    [] stat = "mean"  -> SeriesMean(rows, field)
    [] stat = "count" -> SeriesCount(rows, field)

\* df.groupby(by).agg({...}): aggs is the list of (field, stat) pairs in the
\* order of the dictionary; they are the columns of the result.
Agg(rows, by, aggs) ==
  LET groups == GroupBy(rows, by)
  IN  [columns |-> aggs,
       rows |-> [g \in 1..Len(groups) |->
                   [key |-> groups[g].key,
                    vals |-> [i \in 1..Len(aggs) |->
                                Aggregate(aggs[i][2], groups[g].rows, aggs[i][1])]]]]

\* DataFrame.round(2).
TableRound2(t) ==
  [t EXCEPT !.rows = [r \in 1..Len(t.rows) |->
     [t.rows[r] EXCEPT !.vals = [i \in 1..Len(t.columns) |-> Round2(t.rows[r].vals[i])]]]]

\* t.columns = names.
SetColumns(t, names) == [t EXCEPT !.columns = names]

HasColumn(t, name) == \E i \in 1..Len(t.columns) : t.columns[i] = name

\* t.loc[key, name] of row r.
Cell(t, r, name) == r.vals[IndexOf(name, t.columns)]

RECURSIVE InsertDesc(_, _, _)
\* x placed after every row whose cell i is >= its own.
InsertDesc(x, s, i) ==
  IF s = <<>> THEN <<x>>
  ELSE IF FracLess(Head(s).vals[i], x.vals[i]) THEN <<x>> \o s
  ELSE <<Head(s)>> \o InsertDesc(x, Tail(s), i)

RECURSIVE SortRowsDesc(_, _)
SortRowsDesc(rows, i) ==
  IF rows = <<>> THEN <<>>
  ELSE InsertDesc(rows[Len(rows)], SortRowsDesc(SubSeq(rows, 1, Len(rows) - 1), i), i)

\* SortValuesDesc whose result is dropped.
SortValuesKept(t, name) == t

\* t.sort_values(name, ascending=False).  pandas sorts the reversed column
\* ascending and reverses the result, and numpy sorts a short array by
\* insertion, so rows with equal cells keep their order.
SortValuesDesc(t, name) ==
  [t EXCEPT !.rows = SortRowsDesc(t.rows, IndexOf(name, t.columns))]

\* t[name].idxmax(): the key of the first row holding the largest cell.
IdxMax(t, name) ==
  LET c == IndexOf(name, t.columns)
      i == CHOOSE i \in 1..Len(t.rows) :
             /\ \A j \in 1..Len(t.rows) : ~FracLess(t.rows[i].vals[c], t.rows[j].vals[c])
             /\ \A j \in 1..(i - 1) : FracLess(t.rows[j].vals[c], t.rows[i].vals[c])
  IN  t.rows[i].key

\* t[name].idxmin(): the key of the first row holding the smallest cell.
IdxMin(t, name) ==
  LET c == IndexOf(name, t.columns)
      i == CHOOSE i \in 1..Len(t.rows) :
             /\ \A j \in 1..Len(t.rows) : ~FracLess(t.rows[j].vals[c], t.rows[i].vals[c])
             /\ \A j \in 1..(i - 1) : FracLess(t.rows[i].vals[c], t.rows[j].vals[c])
  IN  t.rows[i].key

\* t[name].max().
ColMax(t, name) ==
  LET c == IndexOf(name, t.columns)
      i == CHOOSE i \in 1..Len(t.rows) :
             \A j \in 1..Len(t.rows) : ~FracLess(t.rows[i].vals[c], t.rows[j].vals[c])
  IN  t.rows[i].vals[c]

\* t[name].min().
ColMin(t, name) ==
  LET c == IndexOf(name, t.columns)
      i == CHOOSE i \in 1..Len(t.rows) :
             \A j \in 1..Len(t.rows) : ~FracLess(t.rows[j].vals[c], t.rows[i].vals[c])
  IN  t.rows[i].vals[c]

\* df.groupby(by)[field].sum(): a series, kept as a table of one column.
GroupSum(rows, by, field) == SetColumns(Agg(rows, by, << <<field, "sum">> >>), <<field>>)

---------------------------------------------------------------------------
\* Dates

DaysBefore == <<0, 31, 59, 90, 120, 151, 181, 212, 243, 273, 304, 334>>
DayNames ==
  <<"Wednesday", "Thursday", "Friday", "Saturday", "Sunday", "Monday", "Tuesday">>

\* dt.month
MonthOf(date) == date.month
\* dt.quarter
QuarterOf(date) == (date.month - 1) \div 3 + 1
\* dt.day_name(), for a date of 2025 (1 January 2025 is a Wednesday).
DayNameOf(date) == DayNames[((DaysBefore[date.month] + date.day - 1) % 7) + 1]

DateOrd(date) == date.month * 100 + date.day

---------------------------------------------------------------------------
\* The program's state

VARIABLES
  csv,   \* the input file: [exists, columns, rows]; never written
  df,    \* the table load_data returned: [columns, rows]
  out,   \* what has been printed, in order
  pc,    \* the statement of main() that runs next
  err    \* the exception that ended main(), or "None"

vars == <<csv, df, out, pc, err>>

\* One printed line: the section it belongs to, its label, and up to two
\* formatted values.
Line(sec, label, key, val) == [sec |-> sec, label |-> label, key |-> key, val |-> val]

\* print(table)
PrintTable(sec, label, t) == [sec |-> sec, label |-> label, table |-> t]

\* The three prints that open a section.
Banner(sec) == Line(sec, "banner", FormatStr(""), FormatStr(""))

\* A statement that has run: what it printed.
Prints(items) == [raise |-> "None", items |-> items]
\* A statement that raised before printing.
Raises(e) == [raise |-> e, items |-> <<>>]

\* df[c] for every c of cols: a KeyError when one is not a column.
Need(cols, items) == IF cols \subseteq df.columns THEN Prints(items) ELSE Raises("KeyError")

RECURSIVE Run(_)
\* The statements of a function body in order, up to the first that raises.
Run(stmts) ==
  IF stmts = <<>> THEN [out |-> <<>>, err |-> "None"]
  ELSE IF Head(stmts).raise # "None" THEN [out |-> <<>>, err |-> Head(stmts).raise]
  ELSE LET rest == Run(Tail(stmts))
       IN  [out |-> Head(stmts).items \o rest.out, err |-> rest.err]

\* main() calls a section: its prints are appended; an exception ends main().
Call(at, stmts, next) ==
  /\ pc = at
  /\ LET r == Run(stmts)
     IN  /\ out' = out \o r.out
         /\ err' = r.err
         /\ pc' = IF r.err = "None" THEN next ELSE "raised"
  /\ UNCHANGED <<csv, df>>

---------------------------------------------------------------------------
\* load_data

\* The row of the table for a row of the file: month, quarter and
\* day_of_week are appended.
LoadedRow(r) ==
  [date |-> r.date, product |-> r.product, category |-> r.category,
   region |-> r.region, payment_method |-> r.payment_method,
   customer_id |-> r.customer_id, quantity |-> r.quantity,
   discount_percent |-> r.discount_percent, final_price |-> r.final_price,
   month |-> MonthOf(r.date), quarter |-> QuarterOf(r.date),
   day_of_week |-> DayNameOf(r.date)]

\* The exception load_data raises on a file, or "None".
LoadError(f) ==
  IF ~f.exists THEN "FileNotFoundError"
  ELSE IF "date" \notin f.columns THEN "KeyError"
  ELSE "None"

\* The table load_data returns for a file it can load.
LoadData(f) ==
  [columns |-> f.columns \cup {"month", "quarter", "day_of_week"},
   rows |-> [i \in 1..Len(f.rows) |-> LoadedRow(f.rows[i])]]

NoTable == [columns |-> {}, rows |-> <<>>]

---------------------------------------------------------------------------
\* The report sections, each as the list of its statements

BasicStatisticsStmts ==
  LET sec == "BASIC STATISTICS"
      rows == df.rows
      dates == {DateOrd(rows[i].date) : i \in 1..Len(rows)}
      NaT == [text |-> "NaT", h |-> 0]
  IN  << Prints(<<Banner(sec)>>),
         Need({"final_price"}, <<Line(sec, "Total Revenue", FormatStr(""),
                                      Format2f(SeriesSum(rows, "final_price")))>>),
         Need({"final_price"}, <<Line(sec, "Average Transaction Value", FormatStr(""),
                                      Format2f(SeriesMean(rows, "final_price")))>>),
         Need({"final_price"}, <<Line(sec, "Median Transaction Value", FormatStr(""),
                                      Format2f(SeriesMedian(rows, "final_price")))>>),
         Need({"quantity"}, <<Line(sec, "Total Units Sold", FormatStr(""),
                                   FormatStr(SeriesSum(rows, "quantity").n))>>),
         Prints(<<Line(sec, "Total Transactions", FormatStr(""), FormatStr(Len(rows)))>>),
         Need({"customer_id"}, <<Line(sec, "Unique Customers", FormatStr(""),
                                      FormatStr(NUnique(rows, "customer_id")))>>),
         Need({"discount_percent"}, <<Line(sec, "Average Discount", FormatStr(""),
                                           Format2f(SeriesMean(rows, "discount_percent")))>>),
         Prints(<<Line(sec, "Date Range",
                       IF rows = <<>> THEN NaT ELSE FormatStr(SortAsc(dates)[1]),
                       IF rows = <<>> THEN NaT
                       ELSE FormatStr(SortAsc(dates)[Cardinality(dates)]))>>) >>

\* NeedRows that wants two rows.
NeedRowsTwo(t, items) == IF Len(t.rows) < 2 THEN Raises("ValueError") ELSE Prints(items)

\* idxmax() or idxmin() of a series: a ValueError when it is empty.
NeedRows(t, items) == IF t.rows = <<>> THEN Raises("ValueError") ELSE Prints(items)

ProductStats ==
  SortValuesDesc(
    SetColumns(
      TableRound2(Agg(df.rows, "product",
        << <<"final_price", "sum">>, <<"final_price", "mean">>, <<"final_price", "count">>,
           <<"quantity", "sum">>, <<"discount_percent", "mean">> >>)),
      <<"Total Revenue", "Avg Price", "Transactions", "Units Sold", "Avg Discount %">>),
    "Total Revenue")

ProductAnalysisStmts ==
  LET sec == "PRODUCT PERFORMANCE ANALYSIS"
      product_stats == ProductStats
      cols == {"product", "final_price", "quantity", "discount_percent"}
  IN  << Prints(<<Banner(sec)>>),
         Need(cols, <<PrintTable(sec, "product_stats", product_stats)>>),
         NeedRows(product_stats,
           <<Line(sec, "Best Selling Product",
                  FormatStr(IdxMax(product_stats, "Units Sold")),
                  FormatStr(ColMax(product_stats, "Units Sold").n))>>),
         NeedRows(product_stats,
           <<Line(sec, "Highest Revenue Product",
                  FormatStr(IdxMax(product_stats, "Total Revenue")),
                  Format2f(ColMax(product_stats, "Total Revenue")))>>) >>

RegionStats ==
  SortValuesDesc(
    SetColumns(
      TableRound2(Agg(df.rows, "region",
        << <<"final_price", "sum">>, <<"final_price", "mean">>, <<"final_price", "count">>,
           <<"quantity", "sum">> >>)),
      <<"Total Revenue", "Avg Transaction", "Transactions", "Units Sold">>),
    "Total Revenue")

RegionalAnalysisStmts ==
  LET sec == "REGIONAL ANALYSIS"
      region_stats == RegionStats
      cols == {"region", "final_price", "quantity"}
  IN  << Prints(<<Banner(sec)>>),
         Need(cols, <<PrintTable(sec, "region_stats", region_stats)>>),
         NeedRows(region_stats,
           <<Line(sec, "Top Region",
                  FormatStr(IdxMax(region_stats, "Total Revenue")),
                  Format2f(ColMax(region_stats, "Total Revenue")))>>) >>

MonthlyRevenue == TableRound2(GroupSum(df.rows, "month", "final_price"))
QuarterlyRevenue == TableRound2(GroupSum(df.rows, "quarter", "final_price"))

\* The name of the one column of a series.
SeriesName(t) == t.columns[1]

TemporalAnalysisStmts ==
  LET sec == "TEMPORAL ANALYSIS"
      monthly_revenue == MonthlyRevenue
      quarterly_revenue == QuarterlyRevenue
      cols == {"month", "final_price"}
      qcols == {"quarter", "final_price"}
  IN  << Prints(<<Banner(sec)>>),
         Need(cols, <<PrintTable(sec, "Monthly Revenue", monthly_revenue)>>),
         NeedRows(monthly_revenue,
           <<Line(sec, "Best Month",
                  FormatStr(IdxMax(monthly_revenue, SeriesName(monthly_revenue))),
                  Format2f(ColMax(monthly_revenue, SeriesName(monthly_revenue))))>>),
         NeedRows(monthly_revenue,
           <<Line(sec, "Worst Month",
                  FormatStr(IdxMin(monthly_revenue, SeriesName(monthly_revenue))),
                  Format2f(ColMin(monthly_revenue, SeriesName(monthly_revenue))))>>),
         Need(qcols, <<PrintTable(sec, "Quarterly Revenue", quarterly_revenue)>>),
         NeedRows(quarterly_revenue,
           <<Line(sec, "Best Quarter",
                  FormatStr(IdxMax(quarterly_revenue, SeriesName(quarterly_revenue))),
                  Format2f(ColMax(quarterly_revenue, SeriesName(quarterly_revenue))))>>) >>

CategoryStats ==
  SortValuesDesc(
    SetColumns(
      TableRound2(Agg(df.rows, "category",
        << <<"final_price", "sum">>, <<"final_price", "mean">>, <<"final_price", "count">>,
           <<"quantity", "sum">>, <<"discount_percent", "mean">> >>)),
      <<"Total Revenue", "Avg Price", "Transactions", "Units Sold", "Avg Discount %">>),
    "Total Revenue")

CategoryAnalysisStmts ==
  LET sec == "CATEGORY ANALYSIS"
      category_stats == CategoryStats
      cols == {"category", "final_price", "quantity", "discount_percent"}
  IN  << Prints(<<Banner(sec)>>),
         Need(cols, <<PrintTable(sec, "category_stats", category_stats)>>) >>

DiscountStats ==
  SetColumns(
    TableRound2(Agg(df.rows, "discount_percent",
      << <<"final_price", "sum">>, <<"final_price", "mean">>, <<"final_price", "count">>,
         <<"quantity", "sum">> >>)),
    <<"Total Revenue", "Avg Price", "Transactions", "Units Sold">>)

\* DiscountLine printing the fraction, not the percentage.
DiscountLineFraction(sec, t, r) ==
  LET revenue == Cell(t, r, "Total Revenue")
      total_revenue == SeriesSum(df.rows, "final_price")
      percentage == Divide(revenue, total_revenue)
  IN  [sec |-> sec, label |-> "discount level", key |-> FormatStr(r.key),
       val |-> Format2f(revenue), pct |-> Format2f(percentage)]

\* The line the loop of discount_analysis prints for one row of discount_stats.
DiscountLine(sec, t, r) ==
  LET revenue == Cell(t, r, "Total Revenue")
      total_revenue == SeriesSum(df.rows, "final_price")
      percentage == Times(Divide(revenue, total_revenue), 100)
  IN  [sec |-> sec, label |-> "discount level", key |-> FormatStr(r.key),
       val |-> Format2f(revenue), pct |-> Format2f(percentage)]

DiscountAnalysisStmts ==
  LET sec == "DISCOUNT IMPACT ANALYSIS"
      cols == {"discount_percent", "final_price", "quantity"}
      t == DiscountStats
  IN  << Prints(<<Banner(sec)>>),
         Need(cols, <<PrintTable(sec, "discount_stats", t)>>),
         Prints(<<Line(sec, "Revenue Distribution by Discount Level",
                       FormatStr(""), FormatStr(""))>>),
         Prints([i \in 1..Len(t.rows) |-> DiscountLine(sec, t, t.rows[i])]) >>

PaymentStats ==
  SortValuesDesc(
    SetColumns(
      TableRound2(Agg(df.rows, "payment_method",
        << <<"final_price", "sum">>, <<"final_price", "mean">>, <<"final_price", "count">> >>)),
      <<"Total Revenue", "Avg Transaction", "Count">>),
    "Total Revenue")

PaymentMethodAnalysisStmts ==
  LET sec == "PAYMENT METHOD ANALYSIS"
      payment_stats == PaymentStats
      cols == {"payment_method", "final_price"}
  IN  << Prints(<<Banner(sec)>>),
         Need(cols, <<PrintTable(sec, "payment_stats", payment_stats)>>) >>

\* TopBy taking idxmin.
TopByMin(by) == IdxMin(GroupSum(df.rows, by, "final_price"), "final_price")

\* df.groupby(by)['final_price'].sum().idxmax()
TopBy(by) == IdxMax(GroupSum(df.rows, by, "final_price"), "final_price")

\* A statement that computes and prints nothing.
Computes(cols) ==
  IF ~(cols \subseteq df.columns) THEN Raises("KeyError")
  ELSE IF df.rows = <<>> THEN Raises("ValueError")
  ELSE Prints(<<>>)

KeyInsightsStmts ==
  LET sec == "KEY INSIGHTS & RECOMMENDATIONS"
      rows == df.rows
      top_product == TopBy("product")
      top_product_revenue == ColMax(GroupSum(rows, "product", "final_price"), "final_price")
      top_region == TopBy("region")
      avg_revenue_no_discount ==
        SeriesMean(SelectRows(rows, "discount_percent", {0}), "final_price")
      avg_revenue_with_discount ==
        SeriesMean(SelectRows(rows, "discount_percent",
                              {v \in Range(Column(rows, "discount_percent")) : v > 0}),
                   "final_price")
      top_category == TopBy("category")
      computed == Run(<< Computes({"product", "final_price"}),
                         Computes({"region", "final_price"}),
                         Need({"discount_percent", "final_price"}, <<>>),
                         Computes({"category", "final_price"}) >>)
  IN  << Prints(<<Banner(sec)>>),
         IF computed.err # "None" THEN Raises(computed.err)
         ELSE Prints(<<Line(sec, "1", FormatStr(top_product), Format2f(top_product_revenue)),
                       Line(sec, "2", FormatStr(top_region), FormatStr("")),
                       Line(sec, "3", FormatStr(top_category), FormatStr("")),
                       Line(sec, "4 without discount", FormatStr(""),
                            Format2f(avg_revenue_no_discount)),
                       Line(sec, "4 with discount", FormatStr(""),
                            Format2f(avg_revenue_with_discount))>>),
         Need({"customer_id"}, <<Line(sec, "5", FormatStr(""),
                                      FormatStr(NUnique(rows, "customer_id")))>>) >>

---------------------------------------------------------------------------
\* main

\* The most columns a file of Init lacks.
MaxMissing == 2

RECURSIVE RowNumbers(_, _)
\* The non-decreasing sequences of k row numbers, none below lo.
RowNumbers(k, lo) ==
  IF k = 0 THEN {<<>>}
  ELSE UNION { {<<j>> \o s : s \in RowNumbers(k - 1, j)} : j \in lo..NumCsvRows }

\* The tables of at most n rows, up to the order of their rows, each as the
\* numbers of its rows.
TablesUpTo(n) == UNION {RowNumbers(k, 1) : k \in 0..n}

\* The files main() is run on: none; a file with every column and a table
\* of at most MaxRows rows; a file that lacks some columns.
CsvFiles ==
  {[exists |-> FALSE, missing |-> {}, rows |-> <<>>]}
  \cup {[exists |-> TRUE, missing |-> {}, rows |-> t] : t \in TablesUpTo(MaxRows)}
  \cup {[exists |-> TRUE, missing |-> m, rows |-> t] :
          m \in {x \in SUBSET CsvColumns : Cardinality(x) \in 1..MaxMissing},
          t \in TablesUpTo(1)}

\* The file of a member of CsvFiles.
CsvFile(f) ==
  [exists |-> f.exists, columns |-> CsvColumns \ f.missing,
   rows |-> [i \in 1..Len(f.rows) |-> CsvRowAt(f.rows[i])]]

Init ==
  /\ \E f \in CsvFiles : csv = CsvFile(f)
  /\ df = NoTable
  /\ out = <<>>
  /\ pc = "start"
  /\ err = "None"

\* main, lines 236-238: the title.
Start ==
  /\ pc = "start"
  /\ out' = out \o <<Banner("E-COMMERCE SALES ANALYSIS 2025")>>
  /\ pc' = "load_data"
  /\ UNCHANGED <<csv, df, err>>

\* main, lines 241-242: df = load_data(), then the record count.
Load ==
  /\ pc = "load_data"
  /\ IF LoadError(csv) # "None"
     THEN /\ err' = LoadError(csv)
          /\ pc' = "raised"
          /\ UNCHANGED <<df, out>>
     ELSE /\ df' = LoadData(csv)
          /\ out' = out \o <<Line("E-COMMERCE SALES ANALYSIS 2025", "Dataset loaded successfully",
                                   FormatStr(""), FormatStr(Len(csv.rows)))>>
          /\ pc' = "basic_statistics"
          /\ err' = err
  /\ UNCHANGED csv

BasicStatistics == Call("basic_statistics", BasicStatisticsStmts, "product_analysis")
ProductAnalysis == Call("product_analysis", ProductAnalysisStmts, "regional_analysis")
\* RegionalAnalysis after which main() goes on to the category section.
RegionalAnalysisSkip == Call("regional_analysis", RegionalAnalysisStmts, "category_analysis")
RegionalAnalysis == Call("regional_analysis", RegionalAnalysisStmts, "temporal_analysis")
TemporalAnalysis == Call("temporal_analysis", TemporalAnalysisStmts, "category_analysis")
CategoryAnalysis == Call("category_analysis", CategoryAnalysisStmts, "discount_analysis")
DiscountAnalysis == Call("discount_analysis", DiscountAnalysisStmts, "payment_method_analysis")
PaymentMethodAnalysis ==
  Call("payment_method_analysis", PaymentMethodAnalysisStmts, "key_insights")
KeyInsights == Call("key_insights", KeyInsightsStmts, "complete")

\* main, lines 254-256: the completion banner.
Complete ==
  /\ pc = "complete"
  /\ out' = out \o <<Banner("Analysis Complete!")>>
  /\ pc' = "done"
  /\ UNCHANGED <<csv, df, err>>

Next ==
  \/ Start
  \/ Load
  \/ BasicStatistics
  \/ ProductAnalysis
  \/ RegionalAnalysis
  \/ TemporalAnalysis
  \/ CategoryAnalysis
  \/ DiscountAnalysis
  \/ PaymentMethodAnalysis
  \/ KeyInsights
  \/ Complete

Spec == Init /\ [][Next]_vars

---------------------------------------------------------------------------
\* Reading the report

\* The printed tables that are sorted by revenue, and those left in key order.
SortedTables == {"product_stats", "region_stats", "category_stats", "payment_stats"}
KeyOrderTables == {"discount_stats", "Monthly Revenue", "Quarterly Revenue"}
ReportTables == SortedTables \cup KeyOrderTables

\* The column each printed table is grouped by.
GroupedBy(label) ==
  CASE label = "product_stats"     -> "product"
    [] label = "region_stats"      -> "region"
    [] label = "category_stats"    -> "category"
    [] label = "payment_stats"     -> "payment_method"
    [] label = "discount_stats"    -> "discount_percent"
    [] label = "Monthly Revenue"   -> "month"
    [] label = "Quarterly Revenue" -> "quarter"

\* The positions in out of the items with a label.
At(label) == {i \in DOMAIN out : out[i].label = label}
IsPrinted(label) == At(label) # {}

\* The revenue column of a printed table: a series has only its own.
RevenueColumn(t) == IF HasColumn(t, "Total Revenue") THEN "Total Revenue" ELSE "final_price"

\* A cell that holds a whole number of hundredths, as that number.
AsHundredths(x) == x.n * (100 \div x.d)

\* The sum of a column of a printed table, in hundredths.
ColumnSum(t, name) == SumSeq([i \in 1..Len(t.rows) |-> AsHundredths(Cell(t, t.rows[i], name))])

\* The sum of final_price over the whole table, in thousandths.
TotalMills == SumSeq([i \in 1..Len(df.rows) |-> df.rows[i].final_price])

Abs(x) == IF x < 0 THEN -x ELSE x

WholeCents == \A i \in 1..Len(df.rows) : df.rows[i].final_price % 10 = 0

\* The file has every column.
FullFile == csv.exists /\ csv.columns = CsvColumns

---------------------------------------------------------------------------
\* C1

\* C1 as stated: in every printed table of a non-empty input, the rounded
\* per-group revenues add up to the sum of final_price over the whole table.
C1_ConservationExact ==
  \A i \in DOMAIN out :
    (FullFile /\ out[i].label \in ReportTables /\ df.rows # <<>>) =>
      10 * ColumnSum(out[i].table, RevenueColumn(out[i].table)) = TotalMills

\* C1 amended: the rounded per-group revenues add up to the sum of
\* final_price within half a cent per group, and to exactly that sum when
\* every final_price is a whole number of cents.
C1_ConservationUpToRounding ==
  \A i \in DOMAIN out :
    (out[i].label \in ReportTables /\ df.rows # <<>>) =>
      LET t == out[i].table
          diff == Abs(10 * ColumnSum(t, RevenueColumn(t)) - TotalMills)
      IN  /\ diff <= 5 * Len(t.rows)
          /\ WholeCents => diff = 0

\* A table of two groups whose rounded revenues do not add up to the total.
C1_Witness ==
  \E i \in DOMAIN out :
    /\ out[i].label \in ReportTables
    /\ Len(out[i].table.rows) = 2
    /\ 10 * ColumnSum(out[i].table, RevenueColumn(out[i].table)) # TotalMills

---------------------------------------------------------------------------
\* C2

\* C2 as stated: every printed table has a "Transactions" column whose sum
\* is the number of records.
C2_TransactionsEverywhere ==
  \A i \in DOMAIN out :
    (FullFile /\ out[i].label \in ReportTables) =>
      /\ HasColumn(out[i].table, "Transactions")
      /\ ColumnSum(out[i].table, "Transactions") = 100 * Len(df.rows)

\* C2 amended: the product, region, category and discount tables have a
\* "Transactions" column whose sum is the number of records; the payment
\* table has that count under "Count"; the month and quarter tables have a
\* revenue column only.
C2_CountColumns ==
  \A i \in DOMAIN out :
    LET t == out[i].table
    IN  /\ out[i].label \in {"product_stats", "region_stats", "category_stats", "discount_stats"}
             => /\ HasColumn(t, "Transactions")
                /\ ColumnSum(t, "Transactions") = 100 * Len(df.rows)
        /\ out[i].label = "payment_stats"
             => /\ ~HasColumn(t, "Transactions")
                /\ HasColumn(t, "Count")
                /\ ColumnSum(t, "Count") = 100 * Len(df.rows)
        /\ out[i].label \in {"Monthly Revenue", "Quarterly Revenue"}
             => t.columns = <<"final_price">>

\* The payment table of three records in two groups has been printed.
C2_Witness ==
  \E i \in DOMAIN out :
    /\ out[i].label = "payment_stats"
    /\ Len(out[i].table.rows) = 2
    /\ Len(df.rows) = 3

---------------------------------------------------------------------------
\* C3

\* Adjacent rows of t do not increase in revenue.
NonIncreasing(t) ==
  \A r \in 1..(Len(t.rows) - 1) :
    ~FracLess(Cell(t, t.rows[r], RevenueColumn(t)), Cell(t, t.rows[r + 1], RevenueColumn(t)))

\* The keys of t ascend.
KeysAscend(t, by) ==
  \A r \in 1..(Len(t.rows) - 1) : KeyRank(by, t.rows[r].key) < KeyRank(by, t.rows[r + 1].key)

\* C3: the product, region, category and payment tables are printed in
\* non-increasing order of "Total Revenue"; the discount, month and quarter
\* tables in ascending order of their key.
C3_RowOrder ==
  \A i \in DOMAIN out :
    /\ out[i].label \in SortedTables => NonIncreasing(out[i].table)
    /\ out[i].label \in KeyOrderTables => KeysAscend(out[i].table, GroupedBy(out[i].label))

\* A product table whose rows had to be reordered and a discount table of
\* two tiers have been printed.
C3_Witness ==
  /\ \E i \in At("product_stats") :
       LET t == out[i].table
       IN  /\ Len(t.rows) = 2
           /\ t.rows[1].key = "Product B"
           /\ FracLess(Cell(t, t.rows[2], "Total Revenue"), Cell(t, t.rows[1], "Total Revenue"))
  /\ \E i \in At("discount_stats") : Len(out[i].table.rows) = 2

---------------------------------------------------------------------------
\* C4

\* The banners of the report, in the order main() calls their functions.
SectionOrder ==
  <<"BASIC STATISTICS", "PRODUCT PERFORMANCE ANALYSIS", "REGIONAL ANALYSIS",
    "TEMPORAL ANALYSIS", "CATEGORY ANALYSIS", "DISCOUNT IMPACT ANALYSIS",
    "PAYMENT METHOD ANALYSIS", "KEY INSIGHTS & RECOMMENDATIONS", "Analysis Complete!">>

IsSection(sec) == \E k \in 1..Len(SectionOrder) : SectionOrder[k] = sec

\* Something of an analysis section has been printed.
SomeSectionPrinted == \E i \in DOMAIN out : IsSection(out[i].sec)

\* C4: on a file that is missing, or that lacks a required column, main()
\* gets no further than load_data, which raises (whatever it raises is taken
\* for the DataLoadError), and nothing of an analysis section is printed.
C4_BadFileFailsAtLoad ==
  ~FullFile =>
    /\ pc \in {"start", "load_data", "raised"}
    /\ pc = "raised" => err # "None"
    /\ ~SomeSectionPrinted

\* What does hold of such a file: main() ends with an exception, never with
\* the completion banner.
C4_BadFileNeverCompletes == ~FullFile => pc \notin {"complete", "done"}

---------------------------------------------------------------------------
\* C5

NoUndiscounted == \A i \in 1..Len(df.rows) : df.rows[i].discount_percent # 0
NoDiscounted == \A i \in 1..Len(df.rows) : df.rows[i].discount_percent = 0

\* key_insights has returned.
InsightsDone == pc \in {"complete", "done"}

\* C5: with no undiscounted row, or no discounted row, key_insights returns
\* without an exception, has printed the other four insights, and has printed
\* the average of the empty subset as "N/A".
C5_EmptySubsetIsNA ==
  (FullFile /\ InsightsDone) =>
    /\ err = "None"
    /\ \A l \in {"1", "2", "3", "5"} : IsPrinted(l)
    /\ NoUndiscounted => \A i \in At("4 without discount") : out[i].val.text = "N/A"
    /\ NoDiscounted => \A i \in At("4 with discount") : out[i].val.text = "N/A"

\* What does hold there: no exception, the other insights are printed, and
\* the average of the empty subset is printed as "nan".
C5_EmptySubsetIsNan ==
  (FullFile /\ InsightsDone) =>
    /\ err = "None"
    /\ \A l \in {"1", "2", "3", "4 without discount", "4 with discount", "5"} : IsPrinted(l)
    /\ NoUndiscounted => \A i \in At("4 without discount") : out[i].val.text = "nan"
    /\ NoDiscounted => \A i \in At("4 with discount") : out[i].val.text = "nan"

---------------------------------------------------------------------------
\* C6

\* The sections whose banner has been printed, in the order of printing.
BannersPrinted ==
  LET b == SelectSeq(out, LAMBDA it : it.label = "banner" /\ IsSection(it.sec))
  IN  [k \in 1..Len(b) |-> b[k].sec]

\* 0 for what main() prints before the sections, k for section k.
SecIndex(sec) == IF IsSection(sec) THEN IndexOf(sec, SectionOrder) ELSE 0

\* C6: the banners printed so far are the first ones of the fixed order,
\* each once; every line follows the banner of its own section and precedes
\* the next banner; the first section starts after the load has printed the
\* record count; a run that ends without an exception has printed all nine.
C6_SectionOrder ==
  /\ BannersPrinted = SubSeq(SectionOrder, 1, Len(BannersPrinted))
  /\ \A i \in 1..(Len(out) - 1) : SecIndex(out[i].sec) <= SecIndex(out[i + 1].sec)
  /\ \A i \in DOMAIN out :
       IsSection(out[i].sec) =>
         \E j \in 1..i : /\ out[j].label = "banner"
                         /\ out[j].sec = out[i].sec
                         /\ \A k \in j..i : out[k].sec = out[i].sec
  /\ SomeSectionPrinted =>
       /\ df = LoadData(csv)
       /\ \E j \in DOMAIN out : /\ out[j].label = "Dataset loaded successfully"
                                /\ \A k \in 1..j : ~IsSection(out[k].sec)
  /\ pc = "done" => BannersPrinted = SectionOrder
  /\ BannersPrinted = SectionOrder => pc = "done"

\* A run over three records has ended with the completion banner.
C6_Witness == pc = "done" /\ Len(df.rows) = 3 /\ Len(BannersPrinted) = 9

---------------------------------------------------------------------------
\* C7

OneRow == FullFile /\ Len(csv.rows) = 1

\* C7: on a table of one row no section raises, and "Best Month" and
\* "Worst Month" name the same month with the same revenue.
C7_OneRow ==
  OneRow =>
    /\ pc # "raised"
    /\ err = "None"
    /\ \A i \in At("Best Month") : \A j \in At("Worst Month") :
         out[i].key = out[j].key /\ out[i].val = out[j].val
    /\ pc \in {"category_analysis", "discount_analysis", "payment_method_analysis",
               "key_insights", "complete", "done"}
         => IsPrinted("Best Month") /\ IsPrinted("Worst Month")
    /\ pc = "done" => BannersPrinted = SectionOrder

\* The run over a table of one row has ended with the completion banner.
C7_Witness == OneRow /\ pc = "done" /\ IsPrinted("Worst Month")

---------------------------------------------------------------------------
\* C8

\* The percentages printed by discount_analysis, in hundredths of a percent.
PercentSum ==
  LET l == SelectSeq(out, LAMBDA it : it.label = "discount level")
  IN  SumSeq([k \in 1..Len(l) |-> l[k].pct.h])

AllPercentsNumbers == \A i \in At("discount level") : out[i].pct.text = "fixed"

\* The tiers with a line, and the tiers that occur in the table.
TiersPrinted == {out[i].key.h : i \in At("discount level")}
TiersPresent == {df.rows[i].discount_percent : i \in 1..Len(df.rows)}

\* discount_analysis has returned.
DiscountDone == pc \in {"payment_method_analysis", "key_insights", "complete", "done"}

\* C8 as stated: for every non-empty table the printed percentages add up to
\* 100% within a hundredth of a percent per tier, and only the tiers that
\* occur have a line.
C8_PercentagesSumTo100 ==
  (FullFile /\ DiscountDone /\ df.rows # <<>>) =>
    /\ AllPercentsNumbers
    /\ Abs(PercentSum - 10000) <= Cardinality(At("discount level"))
    /\ TiersPrinted = TiersPresent

\* C8 amended: when every final_price is a whole number of cents and the
\* total revenue is positive, the printed percentages add up to 100% within
\* half a hundredth of a percent per tier; for every table, each tier that
\* occurs has one line and no other tier has any.
C8_PercentagesWholeCents ==
  DiscountDone =>
    /\ (WholeCents /\ TotalMills > 0) =>
         /\ AllPercentsNumbers
         /\ 2 * Abs(PercentSum - 10000) <= Cardinality(At("discount level"))
    /\ TiersPrinted = TiersPresent
    /\ Cardinality(At("discount level")) = Cardinality(TiersPresent)

\* Three tiers of whole-cent prices whose printed percentages miss 100%.
C8_Witness ==
  /\ DiscountDone
  /\ WholeCents
  /\ Cardinality(At("discount level")) = 3
  /\ PercentSum # 10000

---------------------------------------------------------------------------
\* C9

\* The sum of final_price over the rows of product p, in thousandths.
RevenueOf(p) ==
  SumSeq([i \in 1..Len(df.rows) |->
            IF df.rows[i].product = p THEN df.rows[i].final_price ELSE 0])

ProductsPresent == {df.rows[i].product : i \in 1..Len(df.rows)}

\* The prices of the products of the rows: the 3-row scenario is
\* (A, $100), (B, $50), (A, $30).
IsScenario ==
  /\ Len(df.rows) = 3
  /\ <<df.rows[1].product, df.rows[1].final_price>> = <<"Product A", 100000>>
  /\ <<df.rows[2].product, df.rows[2].final_price>> = <<"Product B", 50000>>
  /\ <<df.rows[3].product, df.rows[3].final_price>> = <<"Product A", 30000>>

\* C9: fact 1 names a product whose revenue no other product exceeds, with
\* that revenue to the cent; in the scenario it is Product A with $130.00.
C9_TopProduct ==
  \A i \in At("1") :
    /\ out[i].key.h \in ProductsPresent
    /\ \A q \in ProductsPresent : RevenueOf(q) <= RevenueOf(out[i].key.h)
    /\ out[i].val = [text |-> "fixed", h |-> Hundredths(Frac(RevenueOf(out[i].key.h), 1000))]
    /\ IsScenario => out[i].key.h = "Product A" /\ out[i].val.h = 13000

\* Fact 1 has been printed for the scenario.
C9_Witness == IsScenario /\ IsPrinted("1") /\ \A i \in At("1") : out[i].val.h = 13000

---------------------------------------------------------------------------
\* C10

\* C10: the product of fact 1 is the "Highest Revenue Product" and the first
\* row of the product table, and the region of fact 2 is the "Top Region".
C10_SameTop ==
  (FullFile /\ InsightsDone) =>
    /\ \A i \in At("1") :
         /\ \A j \in At("Highest Revenue Product") : out[j].key = out[i].key
         /\ \A j \in At("product_stats") : out[j].table.rows[1].key = out[i].key.h
    /\ \A i \in At("2") : \A j \in At("Top Region") : out[j].key = out[i].key

\* What does hold: the product of fact 1 has, rounded, the revenue printed
\* for the "Highest Revenue Product".
C10_SameTopRevenue ==
  (FullFile /\ InsightsDone) =>
    \A i \in At("1") : \A j \in At("Highest Revenue Product") : out[j].val = out[i].val

===========================================================================
